---- MODULE Spec2Model ----
(***************************************************************************)
(* Model of src/JS/PlacesHandler.js: the single-flight loader of the       *)
(* Google Maps script (PlacesHandler.loadGoogleMaps and the handlers it    *)
(* registers) and the place resolution functions (extractPlaceIdFromUrl,   *)
(* extractNameFromUrl, searchPlaceByText, searchPlace), and of the search   *)
(* controller of src/JS/main.js (the API key field and handleSearch).      *)
(***************************************************************************)
EXTENDS Integers, Sequences, FiniteSets, TLC

(***************************************************************************)
(* Bounds of the model.                                                    *)
(***************************************************************************)
\* Number of load attempts (promises created at PlacesHandler.js:31).
MaxAttempts == 3

\* Load attempts are numbered in the order loadGoogleMaps creates them; the
\* number names the attempt's promise, its timer, its script element and the
\* closure it stores in window.initMap.  0 stands for null / undefined.
Attempts == 1..MaxAttempts

\* API keys a caller may pass.
ApiKeys == {"keyA", "keyB"}

VARIABLES
    mapsLoadingPromise,  \* this.mapsLoadingPromise: 0 (null) or an attempt
    scriptLoadTimeout,   \* this.scriptLoadTimeout: 0 (null) or the attempt whose timer id it holds
    initMap,             \* window.initMap: 0 (undefined) or the attempt whose closure it holds
    places,              \* window.google && window.google.maps && window.google.maps.places
    promise,             \* per attempt: "none", "pending", "resolved", or the rejection's error
    timer,               \* per attempt: "none", "armed", "fired", "cleared"
    script,              \* per attempt: "none", "loading", "error", "ran", "called"
    scriptKey,           \* per attempt: the key in script.src ("" before the script exists)
    scriptRequests,      \* per attempt: script elements appended to document.head
    hookInstalls,        \* per attempt: assignments of its closure to window.initMap
    hookFired,           \* per attempt: its window.initMap closure has run
    tenSeconds,          \* per attempt: "none", "running", then how the 10 s ended
    lastCall,            \* the most recent loadGoogleMaps call: arguments, result, state before
    input,               \* searchPlace: the input string (a sequence of characters)
    places5,             \* searchPlace: what Place.searchByText answers (<<>> when not asked)
    outcome,             \* searchPlace: what the call did and returned
    fullApiKey,          \* main.js fullApiKey
    apiKeyValue,         \* elements.apiKey.value
    apiKeyFocused,       \* whether the API key field has the focus
    placeInputValue,     \* elements.placeInput.value
    localStorage,        \* google_api_key, business_input, last_search_result
    currentPlaceData,    \* main.js currentPlaceData
    runs                 \* the handleSearch runs: where each stands and what it did

loaderVars == <<mapsLoadingPromise, scriptLoadTimeout, initMap, places, promise, timer,
                script, scriptKey, scriptRequests, hookInstalls, hookFired, tenSeconds,
                lastCall>>

resolverVars == <<input, places5, outcome>>

appVars == <<fullApiKey, apiKeyValue, apiKeyFocused, placeInputValue, localStorage,
             currentPlaceData, runs>>

vars == <<loaderVars, resolverVars, appVars>>

(***************************************************************************)
(* PlacesHandler.loadGoogleMaps                                            *)
(***************************************************************************)
NoCall == [made |-> FALSE]

Rejections == {"Timeout", "LoadFailure", "IncompleteLoad"}

Settled(k) == promise[k] \in {"resolved"} \cup Rejections

\* The attempts created so far.
Started == {k \in Attempts : promise[k] # "none"}

\* resolve() / reject(): a promise settles once, later calls are no-ops.
Settle(k, how) == IF promise[k] = "pending" THEN [promise EXCEPT ![k] = how] ELSE promise

\* clearTimeout(this.scriptLoadTimeout): cancels the timer whose id the field
\* holds, if it has not fired yet.
ClearTimeout ==
    IF scriptLoadTimeout # 0 /\ timer[scriptLoadTimeout] = "armed"
    THEN [timer EXCEPT ![scriptLoadTimeout] = "cleared"]
    ELSE timer

\* The record of a call: its argument, the future it returned (0: a fresh
\* Promise.resolve()), the state it found and what it did (read off the
\* state the call leaves behind).
CallRecord(apiKey, returned) ==
    [made |-> TRUE, apiKey |-> apiKey, returned |-> returned,
     stored |-> mapsLoadingPromise,
     storedState |-> IF mapsLoadingPromise = 0 THEN "none" ELSE promise[mapsLoadingPromise],
     placesBefore |-> places,
     resolvedBefore |-> \E k \in Attempts : promise[k] = "resolved",
     injected |-> scriptRequests' # scriptRequests,
     hooked |-> (hookInstalls' # hookInstalls \/ initMap' # initMap),
     timed |-> (timer' # timer \/ scriptLoadTimeout' # scriptLoadTimeout)]

\* Lines 31-77: a new promise, its timer (35-39), its window.initMap (42-55)
\* and its script element (57-74); line 77 returns this.mapsLoadingPromise.
NewAttempt(apiKey) ==
    /\ Cardinality(Started) < MaxAttempts
    /\ LET k == Cardinality(Started) + 1 IN
        /\ promise' = [promise EXCEPT ![k] = "pending"]
        /\ mapsLoadingPromise' = k
        /\ timer' = [timer EXCEPT ![k] = "armed"]
        /\ scriptLoadTimeout' = k
        /\ tenSeconds' = [tenSeconds EXCEPT ![k] = "running"]
        /\ initMap' = k
        /\ hookInstalls' = [hookInstalls EXCEPT ![k] = @ + 1]
        /\ script' = [script EXCEPT ![k] = "loading"]
        /\ scriptKey' = [scriptKey EXCEPT ![k] = apiKey]
        /\ scriptRequests' = [scriptRequests EXCEPT ![k] = @ + 1]
        /\ UNCHANGED <<places, hookFired>>
        /\ lastCall' = CallRecord(apiKey, mapsLoadingPromise')

\* Lines 18-22: the capability is present.
AlreadyLoaded(apiKey) ==
    /\ places
    /\ UNCHANGED <<mapsLoadingPromise, scriptLoadTimeout, initMap, places, promise, timer,
                   script, scriptKey, scriptRequests, hookInstalls, hookFired, tenSeconds>>
    /\ lastCall' = CallRecord(apiKey, 0)

\* ReturnExisting without the check of line 25: a call made while a promise
\* is stored starts another attempt.
ReturnExisting_Reinject(apiKey) ==
    /\ ~places
    /\ mapsLoadingPromise # 0
    /\ NewAttempt(apiKey)

\* Lines 24-28: a promise is stored.
ReturnExisting(apiKey) ==
    /\ ~places
    /\ mapsLoadingPromise # 0
    /\ UNCHANGED <<mapsLoadingPromise, scriptLoadTimeout, initMap, places, promise, timer,
                   script, scriptKey, scriptRequests, hookInstalls, hookFired, tenSeconds>>
    /\ lastCall' = CallRecord(apiKey, mapsLoadingPromise)

\* Lines 30-77: neither the capability nor a stored promise.
StartAttempt(apiKey) ==
    /\ ~places
    /\ mapsLoadingPromise = 0
    /\ NewAttempt(apiKey)

loadGoogleMaps(apiKey) ==
    /\ \/ AlreadyLoaded(apiKey)
       \/ ReturnExisting(apiKey)
       \/ StartAttempt(apiKey)
    /\ UNCHANGED resolverVars

\* Whether, so far, neither the attempt's window.initMap closure has run nor
\* its script has reported an error.
Quiet(k) == ~hookFired[k] /\ script[k] # "error"

\* Lines 35-39: the callback of the attempt's setTimeout(..., 10000).
scriptLoadTimeoutFires(k) ==
    /\ timer[k] = "armed"
    /\ timer' = [timer EXCEPT ![k] = "fired"]
    /\ tenSeconds' = [tenSeconds EXCEPT ![k] = IF Quiet(k) THEN "quiet" ELSE "busy"]
    /\ mapsLoadingPromise' = 0
    /\ promise' = Settle(k, "Timeout")
    /\ UNCHANGED <<scriptLoadTimeout, initMap, places, script, scriptKey, scriptRequests,
                   hookInstalls, hookFired, lastCall>>
    /\ UNCHANGED resolverVars

\* Ten seconds pass since the attempt's setTimeout (line 35) while its timer
\* is cancelled: no callback runs.
tenSecondsPassCancelled(k) ==
    /\ timer[k] = "cleared"
    /\ tenSeconds[k] = "running"
    /\ tenSeconds' = [tenSeconds EXCEPT ![k] = IF Quiet(k) THEN "quiet" ELSE "busy"]
    /\ UNCHANGED <<mapsLoadingPromise, scriptLoadTimeout, initMap, places, promise, timer,
                   script, scriptKey, scriptRequests, hookInstalls, hookFired, lastCall>>
    /\ UNCHANGED resolverVars

\* windowInitMap without the verification of line 48: resolves whenever the
\* callback fires.
windowInitMap_NoVerify(k) ==
    /\ hookFired' = [hookFired EXCEPT ![k] = TRUE]
    /\ timer' = ClearTimeout
    /\ initMap' = 0
    /\ promise' = Settle(k, "resolved")
    /\ UNCHANGED <<mapsLoadingPromise, scriptLoadTimeout, places, scriptKey,
                   scriptRequests, hookInstalls, tenSeconds, lastCall>>

\* windowInitMap without the clearTimeout of line 44.
windowInitMap_NoClear(k) ==
    /\ hookFired' = [hookFired EXCEPT ![k] = TRUE]
    /\ timer' = timer
    /\ initMap' = 0
    /\ promise' = IF places THEN Settle(k, "resolved") ELSE Settle(k, "IncompleteLoad")
    /\ UNCHANGED <<mapsLoadingPromise, scriptLoadTimeout, places, scriptKey,
                   scriptRequests, hookInstalls, tenSeconds, lastCall>>

\* Lines 42-55: the closure the attempt stored in window.initMap (run by
\* the script that calls it, which sets script').
windowInitMap(k) ==
    /\ hookFired' = [hookFired EXCEPT ![k] = TRUE]
    /\ timer' = ClearTimeout
    /\ initMap' = 0
    /\ promise' = IF places THEN Settle(k, "resolved") ELSE Settle(k, "IncompleteLoad")
    /\ UNCHANGED <<mapsLoadingPromise, scriptLoadTimeout, places, scriptKey,
                   scriptRequests, hookInstalls, tenSeconds, lastCall>>

\* Lines 66-71: script.onerror of the attempt's script element.
scriptOnError(k) ==
    /\ script[k] = "loading"
    /\ script' = [script EXCEPT ![k] = "error"]
    /\ timer' = ClearTimeout
    /\ mapsLoadingPromise' = 0
    /\ promise' = Settle(k, "LoadFailure")
    /\ UNCHANGED <<scriptLoadTimeout, initMap, places, scriptKey, scriptRequests,
                   hookInstalls, hookFired, tenSeconds, lastCall>>
    /\ UNCHANGED resolverVars

\* Line 58, the script at script.src executes: it may define
\* window.google.maps.places (definesPlaces) before it signals readiness.
scriptRuns(k, definesPlaces) ==
    /\ script[k] = "loading"
    /\ script' = [script EXCEPT ![k] = "ran"]
    /\ places' = (places \/ definesPlaces)
    /\ UNCHANGED <<mapsLoadingPromise, scriptLoadTimeout, initMap, promise, timer, scriptKey,
                   scriptRequests, hookInstalls, hookFired, tenSeconds, lastCall>>
    /\ UNCHANGED resolverVars

\* Line 58, callback=initMap: the executed script calls whatever function
\* window.initMap holds at that moment; with none it calls nothing.
scriptCallsBack(k) ==
    /\ script[k] = "ran"
    /\ script' = [script EXCEPT ![k] = "called"]
    /\ IF initMap # 0
       THEN windowInitMap(initMap)
       ELSE UNCHANGED <<mapsLoadingPromise, scriptLoadTimeout, initMap, places, promise, timer,
                        scriptKey, scriptRequests, hookInstalls, hookFired, tenSeconds,
                        lastCall>>
    /\ UNCHANGED resolverVars

(***************************************************************************)
(* Place resolution: strings are sequences of one-character strings.       *)
(***************************************************************************)
\* Number of fragments an input string is put together from.
MaxFrags == 3

\* maxResultCount of the text search request.
MaxResultCount == 5

\* JavaScript null, and a string value.
Null == [null |-> TRUE]
Str(v) == [null |-> FALSE, str |-> v]

\* JavaScript truthiness of null or a string.
Truthy(x) == ~x.null /\ x.str # <<>>

PlaceIdKey == <<"p", "l", "a", "c", "e", "_", "i", "d", "=">>
FtidKey == <<"f", "t", "i", "d", "=">>
PlaceMarker == <<"/", "p", "l", "a", "c", "e", "/">>

\* The pieces input strings are put together from.
Fragments ==
    { <<"?">> \o PlaceIdKey \o <<"x">>,
      <<"&">> \o FtidKey \o <<"y">>,
      <<"?">>, <<"&">>, PlaceIdKey, FtidKey, <<"z">>,
      PlaceMarker, <<"/">>, <<"+">>, <<"%", "2", "0">>, <<"%">> }

RECURSIVE Concats(_)
Concats(n) ==
    IF n = 0 THEN {<<>>}
    ELSE LET shorter == Concats(n - 1) IN
         shorter \cup {s \o f : s \in shorter, f \in Fragments}

Inputs == Concats(MaxFrags)

\* Whether pat occurs in s at position i.
OccursAt(s, i, pat) ==
    /\ i + Len(pat) - 1 <= Len(s)
    /\ SubSeq(s, i, i + Len(pat) - 1) = pat

\* The last position of the longest run from i of characters outside stop
\* (i - 1 when the run is empty): a greedy [^...]* from i.
RECURSIVE RunEnd(_, _, _)
RunEnd(s, i, stop) ==
    IF i > Len(s) \/ s[i] \in stop THEN i - 1 ELSE RunEnd(s, i + 1, stop)

\* input.match(/[?&]key([^&]+)/), tried at each start position from i on,
\* left to right: the first capture, or null.
RECURSIVE MatchParam(_, _, _)
MatchParam(s, key, i) ==
    IF i > Len(s) THEN Null
    ELSE LET from == i + 1 + Len(key)
             to == RunEnd(s, from, {"&"})
         IN IF s[i] \in {"?", "&"} /\ OccursAt(s, i + 1, key) /\ to >= from
            THEN Str(SubSeq(s, from, to))
            ELSE MatchParam(s, key, i + 1)

\* extractPlaceIdFromUrl with the two parameters tried in the other order.
extractPlaceIdFromUrl_FtidFirst(s) ==
    LET ftidMatch == MatchParam(s, FtidKey, 1)
        placeIdMatch == MatchParam(s, PlaceIdKey, 1)
    IN IF ~ftidMatch.null THEN ftidMatch
       ELSE IF ~placeIdMatch.null THEN placeIdMatch
       ELSE Null

\* Lines 85-95.
extractPlaceIdFromUrl(s) ==
    LET placeIdMatch == MatchParam(s, PlaceIdKey, 1)
        ftidMatch == MatchParam(s, FtidKey, 1)
    IN IF ~placeIdMatch.null THEN placeIdMatch
       ELSE IF ~ftidMatch.null THEN ftidMatch
       ELSE Null

\* input.match(/\/place\/([^\/]+)/): the first capture, or null.
RECURSIVE MatchPlace(_, _)
MatchPlace(s, i) ==
    IF i > Len(s) THEN Null
    ELSE LET from == i + Len(PlaceMarker)
             to == RunEnd(s, from, {"/"})
         IN IF OccursAt(s, i, PlaceMarker) /\ to >= from
            THEN Str(SubSeq(s, from, to))
            ELSE MatchPlace(s, i + 1)

\* .replace(/\+/g, ' ')
ReplacePlus(s) == [i \in 1..Len(s) |-> IF s[i] = "+" THEN " " ELSE s[i]]

HexDigits == <<"0", "1", "2", "3", "4", "5", "6", "7", "8", "9",
               "a", "b", "c", "d", "e", "f">>

\* The value of a hexadecimal digit (lower case; the inputs hold no other).
HexValue(d) == (CHOOSE i \in 1..Len(HexDigits) : HexDigits[i] = d) - 1

IsHex(d) == \E i \in 1..Len(HexDigits) : HexDigits[i] = d

\* The ASCII characters the strings of the model are made of, by code.
Ascii == (32 :> " ") @@ (37 :> "%") @@ (38 :> "&") @@ (43 :> "+") @@ (47 :> "/")
         @@ (61 :> "=") @@ (63 :> "?") @@ (95 :> "_")

\* decodeURIComponent: each %XX becomes its character; a % that two
\* hexadecimal digits do not follow, or an escaped byte that is not the
\* start of a valid UTF-8 sequence, throws URIError.  Of the bytes below
\* 128 only those of Ascii are decoded here, and multi-byte sequences are
\* not: the inputs hold no other escape than %20.
URIError == [threw |-> "URIError"]

RECURSIVE Decode(_, _, _)
Decode(s, i, acc) ==
    IF i > Len(s) THEN Str(acc)
    ELSE IF s[i] # "%" THEN Decode(s, i + 1, Append(acc, s[i]))
    ELSE IF i + 2 <= Len(s) /\ IsHex(s[i + 1]) /\ IsHex(s[i + 2])
         THEN LET code == 16 * HexValue(s[i + 1]) + HexValue(s[i + 2])
              IN IF code \in DOMAIN Ascii
                 THEN Decode(s, i + 3, Append(acc, Ascii[code]))
                 ELSE URIError
         ELSE URIError

decodeURIComponent(s) == Decode(s, 1, <<>>)

\* Lines 102-109: null, the decoded name, or the URIError thrown.
extractNameFromUrl(s) ==
    LET placeMatch == MatchPlace(s, 1)
    IN IF ~placeMatch.null THEN decodeURIComponent(ReplacePlus(placeMatch.str)) ELSE Null

\* Display names of the places a text search returns.
Names == {"Starbucks", "Joe's Pizza", "Costa"}

\* The i-th place of an answer with the given display names.
PlaceOf(names, i) ==
    [id |-> <<"p", <<"1", "2", "3", "4", "5">>[i]>>, displayName |-> names[i]]

\* What Place.searchByText may answer: no list, or up to maxResultCount places.
RECURSIVE NameLists(_)
NameLists(n) ==
    IF n = 0 THEN {<<>>}
    ELSE LET shorter == NameLists(n - 1) IN
         shorter \cup {Append(l, nm) : l \in {x \in shorter : Len(x) = n - 1}, nm \in Names}

NoPlaces == [null |-> TRUE]
Answers == {NoPlaces} \cup {[null |-> FALSE, names |-> l] : l \in NameLists(MaxResultCount)}

\* searchPlaceByText accepting same-named places only up to a count of 1.
searchPlaceByText_NoLeniency(searchQuery, answer) ==
    IF answer.null \/ Len(answer.names) = 0
    THEN [threw |-> "No results found for the search query"]
    ELSE LET n == Len(answer.names)
             firstPlaceName == answer.names[1]
             allSameName == \A i \in 1..n : answer.names[i] = firstPlaceName
         IN IF n > 1 /\ ~allSameName
            THEN [threw |-> "Multiple different businesses found"]
            ELSE IF n > 1
            THEN [threw |-> "Multiple locations found", name |-> firstPlaceName]
            ELSE [returned |-> PlaceOf(answer.names, 1)]

\* Lines 116-155, given the provider's answer to the request of lines
\* 121-127: the place returned or the Error thrown, with what its message
\* interpolates.
searchPlaceByText(searchQuery, answer) ==
    IF answer.null \/ Len(answer.names) = 0
    THEN [threw |-> "No results found for the search query"]
    ELSE LET n == Len(answer.names)
             firstPlaceName == answer.names[1]
             allSameName == \A i \in 1..n : answer.names[i] = firstPlaceName
         IN IF n > 1 /\ ~allSameName
            THEN [threw |-> "Multiple different businesses found"]
            ELSE IF n > 2
            THEN [threw |-> "Multiple locations found", name |-> firstPlaceName]
            ELSE [returned |-> PlaceOf(answer.names, 1)]

\* Lines 162-177, given whether fetchFields succeeds.
getPlaceById(placeId, fetched) ==
    IF fetched THEN [returned |-> [id |-> placeId]] ELSE [threw |-> "provider error"]

\* Lines 184-200: which provider call searchPlace makes, with what, and how
\* it ends.
searchPlaceOutcome(s, answer, fetched) ==
    LET extractedPlaceId == extractPlaceIdFromUrl(s)
    IN IF Truthy(extractedPlaceId)
       THEN [op |-> "getPlaceById", arg |-> extractedPlaceId.str,
             result |-> getPlaceById(extractedPlaceId.str, fetched)]
       ELSE LET name == extractNameFromUrl(s)
            IN IF name = URIError
               THEN [op |-> "threw", result |-> URIError]
               ELSE LET searchQuery == IF Truthy(name) THEN name.str ELSE s
                    IN [op |-> "searchPlaceByText", arg |-> searchQuery,
                        maxResultCount |-> MaxResultCount,
                        result |-> searchPlaceByText(searchQuery, answer)]

\* searchPlace(input) run to its end.
searchPlace(fetched) ==
    /\ outcome.op = "none"
    /\ outcome' = searchPlaceOutcome(input, places5, fetched)
    /\ UNCHANGED <<input, places5>>
    /\ UNCHANGED loaderVars

\* searchPlaceByText(input) run to its end, called on its own.
searchByText ==
    /\ outcome.op = "none"
    /\ outcome' = [op |-> "searchPlaceByText", arg |-> input,
                   maxResultCount |-> MaxResultCount,
                   result |-> searchPlaceByText(input, places5)]
    /\ UNCHANGED <<input, places5>>
    /\ UNCHANGED loaderVars

(***************************************************************************)
(* main.js: the API key field and handleSearch.                            *)
(***************************************************************************)
\* Number of handleSearch runs (clicks on the search button).
MaxRuns == 2

Runs == 1..MaxRuns

\* The character the API key is masked with (main.js:261).
Bullet == "bullet"

Includes(s, c) == \E i \in 1..Len(s) : s[i] = c

\* String.prototype.trim, for the blank.
RECURSIVE Trim(_)
Trim(s) ==
    IF s = <<>> THEN s
    ELSE IF Head(s) = " " THEN Trim(Tail(s))
    ELSE IF s[Len(s)] = " " THEN Trim(SubSeq(s, 1, Len(s) - 1))
    ELSE s

\* main.js:259-262.
maskApiKey(apiKey) ==
    IF Len(apiKey) <= 6 THEN apiKey
    ELSE [i \in 1..Len(apiKey) |-> IF i <= Len(apiKey) - 6 THEN Bullet ELSE apiKey[i]]

\* A run of handleSearch that has not started.
IdleRun == [pc |-> "idle"]

\* The page before a script of it has run.
AppIdle ==
    /\ fullApiKey = <<>>
    /\ apiKeyValue = <<>>
    /\ apiKeyFocused = FALSE
    /\ placeInputValue = <<>>
    /\ localStorage = [google_api_key |-> Null, business_input |-> Null,
                       last_search_result |-> Null]
    /\ currentPlaceData = Null
    /\ runs = [r \in Runs |-> IdleRun]

LoaderInit ==
    /\ mapsLoadingPromise = 0
    /\ scriptLoadTimeout = 0
    /\ initMap = 0
    /\ places = FALSE
    /\ promise = [k \in Attempts |-> "none"]
    /\ timer = [k \in Attempts |-> "none"]
    /\ script = [k \in Attempts |-> "none"]
    /\ scriptKey = [k \in Attempts |-> ""]
    /\ scriptRequests = [k \in Attempts |-> 0]
    /\ hookInstalls = [k \in Attempts |-> 0]
    /\ hookFired = [k \in Attempts |-> FALSE]
    /\ tenSeconds = [k \in Attempts |-> "none"]
    /\ lastCall = NoCall

ResolverIdle ==
    /\ input = <<>>
    /\ places5 = <<>>
    /\ outcome = [op |-> "none"]

Init == LoaderInit /\ ResolverIdle /\ AppIdle

Next ==
    \/ \E apiKey \in ApiKeys : loadGoogleMaps(apiKey) /\ UNCHANGED appVars
    \/ \E k \in Attempts : scriptLoadTimeoutFires(k) /\ UNCHANGED appVars
    \/ \E k \in Attempts : tenSecondsPassCancelled(k) /\ UNCHANGED appVars
    \/ \E k \in Attempts : scriptOnError(k) /\ UNCHANGED appVars
    \/ \E k \in Attempts, definesPlaces \in BOOLEAN :
          scriptRuns(k, definesPlaces) /\ UNCHANGED appVars
    \/ \E k \in Attempts : scriptCallsBack(k) /\ UNCHANGED appVars

Spec == Init /\ [][Next]_vars

\* The browser's scheduling: an armed timer fires, a script that is loading
\* ends by running or by reporting an error, and a script that has run makes
\* its callback call.  No call of loadGoogleMaps is ever bound to happen.
Fairness ==
    \A k \in Attempts :
        /\ WF_vars(scriptLoadTimeoutFires(k) /\ UNCHANGED appVars)
        /\ WF_vars((scriptOnError(k) \/ \E definesPlaces \in BOOLEAN : scriptRuns(k, definesPlaces))
                   /\ UNCHANGED appVars)
        /\ WF_vars(scriptCallsBack(k) /\ UNCHANGED appVars)

FairSpec == Spec /\ Fairness

\* searchPlace on every input string, with a sample of provider answers.
ResolveAnswers ==
    {NoPlaces} \cup
    {[null |-> FALSE, names |-> l] :
        l \in {<<>>, <<"Joe's Pizza">>, <<"Starbucks", "Starbucks">>,
               <<"Starbucks", "Costa">>, <<"Starbucks", "Starbucks", "Starbucks">>}}

InitResolve ==
    /\ LoaderInit /\ AppIdle
    /\ input \in Inputs
    /\ places5 \in ResolveAnswers
    /\ outcome = [op |-> "none"]

NextResolve == \E fetched \in BOOLEAN : searchPlace(fetched) /\ UNCHANGED appVars

SpecResolve == InitResolve /\ [][NextResolve]_vars

\* searchPlaceByText on every answer of the provider.
InitText ==
    /\ LoaderInit /\ AppIdle
    /\ input \in {<<"z">>, <<"S", "t", "a", "r", "b", "u", "c", "k", "s">>}
    /\ places5 \in Answers
    /\ outcome = [op |-> "none"]

NextText == searchByText /\ UNCHANGED appVars

SpecText == InitText /\ [][NextText]_vars

\* What the user types into the API key field, and the key a former visit
\* may have left in localStorage.
SavedKey == <<"A", "I", "z", "a", "S", "y", "1">>
TypedKeys == {<<>>, <<Bullet>>, <<"k", "e", "y">>, <<" ">> \o SavedKey}

\* What the user types into the place field.
TypedPlaces == {<<" ">>, <<"z">>, <<"?">> \o PlaceIdKey \o <<"x">>, PlaceMarker \o <<"%">>}

\* A search result a former visit may have left in localStorage.
SavedResult == [id |-> <<"o", "l", "d">>, displayName |-> "Costa"]

\* main.js:36-64, loadSavedData on the page a former visit left its data for.
AppInit ==
    /\ localStorage \in {[google_api_key |-> k, business_input |-> Null,
                          last_search_result |-> d] :
                            k \in {Null, Str(SavedKey)}, d \in {Null, Str(SavedResult)}}
    /\ fullApiKey = IF Truthy(localStorage.google_api_key)
                    THEN localStorage.google_api_key.str ELSE <<>>
    /\ apiKeyValue = IF Truthy(localStorage.google_api_key)
                     THEN maskApiKey(localStorage.google_api_key.str) ELSE <<>>
    /\ apiKeyFocused = FALSE
    /\ placeInputValue = <<>>
    /\ currentPlaceData = localStorage.last_search_result
    /\ runs = [r \in Runs |-> IdleRun]

\* main.js:71-75, the focus listener of the API key field.
apiKeyFocus ==
    /\ ~apiKeyFocused
    /\ apiKeyFocused' = TRUE
    /\ apiKeyValue' = IF fullApiKey # <<>> /\ Includes(apiKeyValue, Bullet)
                      THEN fullApiKey ELSE apiKeyValue
    /\ UNCHANGED <<fullApiKey, placeInputValue, localStorage, currentPlaceData, runs>>
    /\ UNCHANGED <<loaderVars, resolverVars>>

\* main.js:77-84, the blur listener of the API key field.
apiKeyBlur ==
    /\ apiKeyFocused
    /\ apiKeyFocused' = FALSE
    /\ LET currentValue == Trim(apiKeyValue) IN
        IF currentValue # <<>> /\ ~Includes(currentValue, Bullet)
        THEN /\ fullApiKey' = currentValue
             /\ localStorage' = [localStorage EXCEPT !.google_api_key = Str(currentValue)]
             /\ apiKeyValue' = maskApiKey(currentValue)
        ELSE UNCHANGED <<fullApiKey, localStorage, apiKeyValue>>
    /\ UNCHANGED <<placeInputValue, currentPlaceData, runs>>
    /\ UNCHANGED <<loaderVars, resolverVars>>

\* The user types into the focused API key field (main.js:7; the field has
\* no input listener).
apiKeyEdited(v) ==
    /\ apiKeyFocused
    /\ apiKeyValue' = v
    /\ UNCHANGED <<fullApiKey, apiKeyFocused, placeInputValue, localStorage,
                   currentPlaceData, runs>>
    /\ UNCHANGED <<loaderVars, resolverVars>>

\* main.js:87-89, the input listener of the place field.
placeInputEdited(v) ==
    /\ placeInputValue' = v
    /\ localStorage' = [localStorage EXCEPT !.business_input = Str(v)]
    /\ UNCHANGED <<fullApiKey, apiKeyValue, apiKeyFocused, currentPlaceData, runs>>
    /\ UNCHANGED <<loaderVars, resolverVars>>

\* Where a run of handleSearch stands: its input, the promise it awaits
\* (0: a fresh resolved one), whether it has asked the provider, what it
\* wrote to last_search_result, and why it failed.
Run(pc, in, awaiting, searched, wrote, why) ==
    [pc |-> pc, input |-> in, awaiting |-> awaiting, searched |-> searched,
     wrote |-> wrote, why |-> why]

\* main.js:131-135 and 150-154: handleSearch resumes after
\* await loadGoogleMaps(...) with the promise in the given state.  Resolved,
\* it calls searchPlace, which throws at once or asks the provider; rejected,
\* it goes to the catch block.
AfterLoad(in, awaiting, state) ==
    IF state = "pending" THEN Run("awaitLoad", in, awaiting, FALSE, Null, "")
    ELSE IF state = "resolved"
    THEN IF searchPlaceOutcome(in, NoPlaces, TRUE).op = "threw"
         THEN Run("failed", in, awaiting, FALSE, Null, "search")
         ELSE Run("awaitSearch", in, awaiting, TRUE, Null, "")
    ELSE Run("failed", in, awaiting, FALSE, Null, "load")

\* The state of the promise a call of loadGoogleMaps returned, after the step.
PromiseState(awaiting) == IF awaiting = 0 THEN "resolved" ELSE promise'[awaiting]

\* The runs of handleSearch that await a promise this step settles resume in
\* the microtasks that follow it.
Microtasks ==
    LET resumed == {r \in Runs : runs[r].pc = "awaitLoad"
                                  /\ PromiseState(runs[r].awaiting) # "pending"}
    IN /\ runs' = [r \in Runs |->
                     IF r \in resumed
                     THEN AfterLoad(runs[r].input, runs[r].awaiting,
                                    PromiseState(runs[r].awaiting))
                     ELSE runs[r]]
       /\ currentPlaceData' = IF \E r \in resumed : runs'[r].pc = "failed"
                              THEN Null ELSE currentPlaceData
       /\ UNCHANGED <<fullApiKey, apiKeyValue, apiKeyFocused, placeInputValue, localStorage>>

\* The runs started so far.
StartedRuns == {r \in Runs : runs[r].pc # "idle"}

\* main.js:98-131: a click on the search button, up to the first await and
\* the microtasks that follow when the promise is already settled.  The
\* button takes the focus, so the API key field is not focused.
handleSearch ==
    /\ ~apiKeyFocused
    /\ Cardinality(StartedRuns) < MaxRuns
    /\ LET r == Cardinality(StartedRuns) + 1
           apiKey == Trim(apiKeyValue)
           in == Trim(placeInputValue)
           typed == ~Includes(apiKey, Bullet)
       IN IF apiKey = <<>> \/ in = <<>>
          THEN /\ runs' = [runs EXCEPT ![r] = Run("failed", in, 0, FALSE, Null, "invalid")]
               /\ UNCHANGED <<fullApiKey, apiKeyValue, apiKeyFocused, placeInputValue,
                              localStorage, currentPlaceData>>
               /\ UNCHANGED <<loaderVars, resolverVars>>
          ELSE /\ fullApiKey' = IF typed THEN apiKey ELSE fullApiKey
               /\ apiKeyValue' = IF typed THEN maskApiKey(apiKey) ELSE apiKeyValue
               /\ localStorage' =
                    [localStorage EXCEPT
                        !.google_api_key = IF typed THEN Str(apiKey) ELSE @,
                        !.business_input = Str(in)]
               /\ loadGoogleMaps(fullApiKey')
               /\ runs' = [runs EXCEPT
                             ![r] = AfterLoad(in, lastCall'.returned,
                                              PromiseState(lastCall'.returned))]
               /\ currentPlaceData' = IF runs'[r].pc = "failed" THEN Null
                                      ELSE currentPlaceData
               /\ UNCHANGED <<apiKeyFocused, placeInputValue>>

\* main.js:139-143.
PlaceData(place) ==
    [id |-> place.id,
     displayName |-> IF "displayName" \in DOMAIN place THEN place.displayName
                     ELSE "undefined"]

\* handleSearch storing the result before the search has returned one: the
\* catch block is reached with last_search_result already written.
searchCompletes_StoreFirst(r, answer, fetched, displayed) ==
    /\ runs[r].pc = "awaitSearch"
    /\ LET result == searchPlaceOutcome(runs[r].input, answer, fetched).result
           placeData == IF "returned" \in DOMAIN result
                        THEN Str(PlaceData(result.returned)) ELSE Str(<<>>)
       IN /\ localStorage' = [localStorage EXCEPT !.last_search_result = placeData]
          /\ IF "returned" \in DOMAIN result /\ displayed
             THEN /\ runs' = [runs EXCEPT ![r].pc = "done", ![r].wrote = placeData]
                  /\ currentPlaceData' = placeData
             ELSE /\ runs' = [runs EXCEPT ![r].pc = "failed", ![r].wrote = placeData,
                                          ![r].why = "search"]
                  /\ currentPlaceData' = Null
    /\ UNCHANGED <<fullApiKey, apiKeyValue, apiKeyFocused, placeInputValue>>
    /\ UNCHANGED <<loaderVars, resolverVars>>

\* main.js:135-154: searchPlace of a run settles (the provider has answered
\* and fetched says whether fetchFields succeeded); displayed says whether
\* displayPlaceInfo returns or throws.
searchCompletes(r, answer, fetched, displayed) ==
    /\ runs[r].pc = "awaitSearch"
    /\ LET result == searchPlaceOutcome(runs[r].input, answer, fetched).result IN
        IF "returned" \in DOMAIN result
        THEN LET placeData == Str(PlaceData(result.returned)) IN
             /\ localStorage' = [localStorage EXCEPT !.last_search_result = placeData]
             /\ IF displayed
                THEN /\ runs' = [runs EXCEPT ![r].pc = "done", ![r].wrote = placeData]
                     /\ currentPlaceData' = placeData
                ELSE /\ runs' = [runs EXCEPT ![r].pc = "failed", ![r].wrote = placeData,
                                             ![r].why = "display"]
                     /\ currentPlaceData' = Null
        ELSE /\ runs' = [runs EXCEPT ![r].pc = "failed", ![r].why = "search"]
             /\ currentPlaceData' = Null
             /\ UNCHANGED localStorage
    /\ UNCHANGED <<fullApiKey, apiKeyValue, apiKeyFocused, placeInputValue>>
    /\ UNCHANGED <<loaderVars, resolverVars>>

InitApp == LoaderInit /\ ResolverIdle /\ AppInit

NextKey ==
    \/ apiKeyFocus
    \/ apiKeyBlur
    \/ \E v \in TypedKeys : apiKeyEdited(v)
    \/ \E v \in TypedPlaces : placeInputEdited(v)
    \/ handleSearch

\* The API key field and the search button, before the loader answers.
SpecKey == InitApp /\ [][NextKey]_vars

NextApp ==
    \/ \E v \in TypedPlaces : placeInputEdited(v)
    \/ handleSearch
    \/ \E k \in Attempts : scriptLoadTimeoutFires(k) /\ Microtasks
    \/ \E k \in Attempts : tenSecondsPassCancelled(k) /\ Microtasks
    \/ \E k \in Attempts : scriptOnError(k) /\ Microtasks
    \/ \E k \in Attempts, definesPlaces \in BOOLEAN : scriptRuns(k, definesPlaces) /\ Microtasks
    \/ \E k \in Attempts : scriptCallsBack(k) /\ Microtasks
    \/ \E r \in Runs, answer \in ResolveAnswers, fetched \in BOOLEAN, displayed \in BOOLEAN :
          searchCompletes(r, answer, fetched, displayed)

\* Searches with the API key field left alone.
SpecApp == InitApp /\ [][NextApp]_vars

(***************************************************************************)
(* Properties of the loader.                                               *)
(***************************************************************************)
\* An attempt is in flight from the injection of its script element until
\* its promise settles.
InFlight(k) == scriptRequests[k] > 0 /\ promise[k] = "pending"

\* C1: a loadGoogleMaps call made while a pending promise is stored and the
\* capability is absent returns that very promise, whatever apiKey it passes,
\* and injects nothing: the attempt keeps its single script element.
C1_SingleFlight ==
    (lastCall.made /\ lastCall.stored # 0 /\ lastCall.storedState = "pending"
        /\ ~lastCall.placesBefore)
    => /\ lastCall.returned = lastCall.stored
       /\ ~lastCall.injected
       /\ scriptRequests[lastCall.stored] = 1

\* C1 witness: a call with another key than the one in the script's src joined
\* a pending attempt.
C1_Witness ==
    /\ lastCall.made /\ lastCall.stored # 0 /\ lastCall.storedState = "pending"
    /\ ~lastCall.placesBefore
    /\ lastCall.apiKey # scriptKey[lastCall.stored]
    /\ lastCall.returned = lastCall.stored

\* C2: at most one load attempt is in flight in every reachable state.
C2_AtMostOneInFlight == Cardinality({k \in Attempts : InFlight(k)}) <= 1

\* C3: every rejection of an attempt (Timeout, LoadFailure, IncompleteLoad)
\* leaves this.mapsLoadingPromise cleared of the rejected promise, so that no
\* call made without the capability is handed an already rejected promise.
C3_FailureClearsPending ==
    /\ \A k \in Attempts : promise[k] \in Rejections => mapsLoadingPromise # k
    /\ (lastCall.made /\ ~lastCall.placesBefore /\ lastCall.storedState \in Rejections)
        => lastCall.returned # lastCall.stored

\* C4: an attempt installs window.initMap once and requests one script, and
\* once its promise has settled window.initMap no longer holds its closure.
C4_HookRemovedWhenSettled ==
    \A k \in Attempts :
        /\ k \in Started => hookInstalls[k] = 1 /\ scriptRequests[k] = 1
        /\ Settled(k) => initMap # k

\* C5: a loadGoogleMaps call made after some attempt resolved returns a fresh
\* resolved promise and injects no script, installs no hook, starts no timer.
C5_IdempotentAfterSuccess ==
    (lastCall.made /\ lastCall.resolvedBefore)
    => /\ lastCall.returned = 0
       /\ ~lastCall.injected /\ ~lastCall.hooked /\ ~lastCall.timed

\* C5 witness: a call was made after an attempt had resolved.
C5_Witness == lastCall.made /\ lastCall.resolvedBefore /\ lastCall.returned = 0

\* C6: an attempt whose 10 seconds end with neither its readiness callback
\* fired nor its script in error is rejected with Timeout, and that rejected
\* promise is no longer stored, so the next call starts afresh.
C6_TimeoutRejects ==
    \A k \in Attempts :
        tenSeconds[k] = "quiet" => promise[k] = "Timeout" /\ mapsLoadingPromise # k

\* C7: an attempt's promise is resolved only if its readiness callback has
\* fired with the capability present; its timer is then cancelled and never
\* fires, so the attempt produces no Timeout.
C7_ResolvedOnlyVerified ==
    \A k \in Attempts :
        promise[k] = "resolved" => hookFired[k] /\ places /\ timer[k] = "cleared"

\* C7 witness: a retry (not the first attempt) resolved.
C7_Witness == \E k \in Attempts : k > 1 /\ promise[k] = "resolved" /\ timer[k] = "cleared"

(***************************************************************************)
(* Properties of place resolution.                                         *)
(***************************************************************************)
Min(S) == CHOOSE x \in S : \A y \in S : x <= y

\* The positions of input at which "?" or "&" is followed by key and a
\* non-empty value.
Occurrences(s, key) ==
    {i \in 1..Len(s) :
        /\ s[i] \in {"?", "&"}
        /\ OccursAt(s, i + 1, key)
        /\ i + 1 + Len(key) <= Len(s)
        /\ s[i + 1 + Len(key)] # "&"}

\* The value of the parameter at position i: up to the next "&" or the end.
ValueAt(s, i, key) ==
    LET from == i + 1 + Len(key)
        stops == {j \in from..Len(s) : s[j] = "&"}
    IN SubSeq(s, from, IF stops = {} THEN Len(s) ELSE Min(stops) - 1)

TextSearchErrors == {"No results found for the search query",
                     "Multiple different businesses found",
                     "Multiple locations found"}

FailedWith(errors) == "threw" \in DOMAIN outcome.result /\ outcome.result.threw \in errors

\* C8 (as claimed): for every place_id=X or ftid=X of the input that follows
\* "?" or "&", searchPlace looks up exactly X and makes no text search.
C8_LooksUpEveryIdentifier ==
    outcome.op # "none" =>
        \A key \in {PlaceIdKey, FtidKey} : \A i \in Occurrences(input, key) :
            /\ outcome.op = "getPlaceById"
            /\ outcome.arg = ValueAt(input, i, key)
            /\ ~FailedWith(TextSearchErrors)

\* C8 (amended): when the input holds such a parameter, searchPlace looks up
\* the value of the leftmost place_id parameter if there is one, else of the
\* leftmost ftid parameter, makes no text search and fails with neither
\* NoResults nor an ambiguity error.
C8_LooksUpFirstIdentifier ==
    LET pids == Occurrences(input, PlaceIdKey)
        ftids == Occurrences(input, FtidKey)
    IN (outcome.op # "none" /\ pids \cup ftids # {}) =>
        /\ outcome.op = "getPlaceById"
        /\ outcome.arg = IF pids # {} THEN ValueAt(input, Min(pids), PlaceIdKey)
                         ELSE ValueAt(input, Min(ftids), FtidKey)
        /\ ~FailedWith(TextSearchErrors)

\* C8 witness: a lookup for an input whose ftid parameter comes before its
\* place_id parameter.
C8_Witness ==
    LET pids == Occurrences(input, PlaceIdKey)
        ftids == Occurrences(input, FtidKey)
    IN /\ outcome.op = "getPlaceById"
       /\ pids # {} /\ ftids # {}
       /\ Min(ftids) < Min(pids)

\* The distinct display names of an answer.
NameSet(answer) == {answer.names[i] : i \in 1..Len(answer.names)}

\* The policy on an answer, with the error of three or more same-named
\* places as given.
Policy(answer, sameNameError) ==
    IF answer.null \/ Len(answer.names) = 0
    THEN outcome.result = [threw |-> "No results found for the search query"]
    ELSE IF Len(answer.names) = 1
    THEN outcome.result = [returned |-> PlaceOf(answer.names, 1)]
    ELSE IF Cardinality(NameSet(answer)) > 1
    THEN outcome.result = [threw |-> "Multiple different businesses found"]
    ELSE IF Len(answer.names) >= 3
    THEN outcome.result = sameNameError
    ELSE outcome.result = [returned |-> PlaceOf(answer.names, 1)]

Markers(s) ==
    {i \in 1..Len(s) :
        /\ OccursAt(s, i, PlaceMarker)
        /\ i + Len(PlaceMarker) <= Len(s)
        /\ s[i + Len(PlaceMarker)] # "/"}

\* The segment after the marker at i, up to the next "/" or the end.
SegmentAt(s, i) ==
    LET from == i + Len(PlaceMarker)
        stops == {j \in from..Len(s) : s[j] = "/"}
    IN SubSeq(s, from, IF stops = {} THEN Len(s) ELSE Min(stops) - 1)

\* C10: with no identifier in the input, searchPlace makes a text search for
\* at most 5 results whose query is the segment after the first "/place/"
\* marker with "+" replaced and the escapes decoded, or else the input.
C10_QueryDerived ==
    (outcome.op # "none"
        /\ Occurrences(input, PlaceIdKey) \cup Occurrences(input, FtidKey) = {}) =>
        /\ outcome.op = "searchPlaceByText"
        /\ outcome.maxResultCount = 5
        /\ outcome.arg =
              IF Markers(input) # {}
              THEN decodeURIComponent(ReplacePlus(SegmentAt(input, Min(Markers(input))))).str
              ELSE input

(***************************************************************************)
(* Properties of the loader under the browser's scheduling.                *)
(***************************************************************************)
\* C11: every promise loadGoogleMaps has returned eventually settles.
C11_EveryFutureSettles ==
    \A k \in Attempts : (promise[k] = "pending") ~> Settled(k)

\* An event of the script of attempt old: its load error or its callback call.
LateEvent(old) == script'[old] \in {"error", "called"} /\ script'[old] # script[old]

\* C12: once the timer of an attempt has fired, no event of its script
\* cancels the timer of a later attempt, clears that attempt's stored
\* promise, removes its hook or settles its promise.
C12_RetryUnaffected ==
    [][\A old \in Attempts : \A retry \in Attempts :
          (timer[old] = "fired" /\ old < retry /\ promise[retry] = "pending" /\ LateEvent(old))
          => /\ timer'[retry] = timer[retry]
             /\ (mapsLoadingPromise = retry => mapsLoadingPromise' = retry)
             /\ (initMap = retry => initMap' = retry)
             /\ promise'[retry] = promise[retry]]_vars

(***************************************************************************)
(* Properties of handleSearch.                                             *)
(***************************************************************************)

\* C13: whenever handleSearch calls loadGoogleMaps, the key it passes
\* (fullApiKey) is a non-empty string, whatever focus, blur, edits and clicks
\* came before.
C13_KeyNeverEmpty == lastCall.made => lastCall.apiKey # <<>>

\* A run of handleSearch has ended.
Finished(r) == runs[r].pc \in {"done", "failed"}

\* C14: once every run of handleSearch has ended, last_search_result and
\* currentPlaceData hold the result of the run started last, even when an
\* earlier run's lookup finished after it.
C14_LatestSearchWins ==
    \A r \in StartedRuns :
        (/\ \A q \in StartedRuns : Finished(q) /\ q <= r
         /\ runs[r].pc = "done")
        => /\ localStorage.last_search_result = runs[r].wrote
           /\ currentPlaceData = runs[r].wrote

\* The ways a run of handleSearch fails before it has a place: the
\* validation of line 106, loadGoogleMaps rejecting, searchPlace rejecting.
Failures == {"invalid", "load", "search"}

\* The run has failed in one of these ways.
Failed(run) == run.pc = "failed" /\ run.why \in Failures

====
